---- MODULE Spec2Model ----
(***************************************************************************)
(* Employee sync system: change capture in the HR store (SQLite triggers), *)
(* batch extraction into the payload file (hr_mcp_server.py) and batch     *)
(* application to the payroll store (payroll_agent.py).                    *)
(*                                                                         *)
(* Attribute values are opaque text tokens: the code only compares them    *)
(* for (in)equality and copies them.  NULL is SQL NULL / Python None.      *)
(* old_values / new_values are kept as maps (json_object on the way in,    *)
(* json.loads on the way out).                                             *)
(***************************************************************************)
EXTENDS Integers, Sequences, FiniteSets, TLC

VARIABLES
    employees,          \* hr_system.db: employees table, employee_id -> row (committed)
    change_log,         \* hr_system.db: employee_change_log rows in id order (committed)
    now,                \* wall clock, one-second precision (CURRENT_TIMESTAMP)
    writer,             \* add_employee / update_employee: position and open transaction
    last_write,         \* history: outcome of the latest add_employee / update_employee call
    changing_writes,    \* history: committed writes that changed >= 1 tracked attribute
    ext,                \* create_sync_payload invocations: position and locals of each
    payload_file,       \* data/sync_payload.json
    runs,               \* history: number of create_sync_payload invocations that found rows
    written,            \* history: every payload written to the file, with its run
    flag_runs,          \* history: log_id -> runs that turned its processed flag FALSE -> TRUE
    last_run,           \* history: result of the latest finished create_sync_payload
    failed_runs,        \* history: runs of create_sync_payload that returned an error
    detected,           \* history: result of the latest detect_changes call
    payroll_employees,  \* payroll_system.db: payroll_employees table (committed)
    sync_log,           \* payroll_system.db: sync_log rows in id order (committed)
    applier,            \* process_sync_payload: position and locals
    last_apply          \* history: result of the latest process_sync_payload call

hrVars      == <<employees, change_log>>
writerVars  == <<writer, last_write, changing_writes>>
extVars     == <<ext, payload_file, runs, written, flag_runs, last_run,
                 failed_runs, detected>>
payrollVars == <<payroll_employees, sync_log>>
applyVars   == <<applier, last_apply>>
vars == <<employees, change_log, now, writer, last_write, changing_writes,
          ext, payload_file, runs, written, flag_runs, last_run,
          failed_runs, detected,
          payroll_employees, sync_log, applier, last_apply>>

----------------------------------------------------------------------------
(* Bounds of the model *)

MaxWrites   == 3    \* attribute-changing writes, Change Recorder alone
MaxMutation == 2    \* attribute-changing writes, next to the Batch Extractor
MaxTime     == 1    \* clock seconds after initialisation
MaxRuns     == 2    \* create_sync_payload invocations
MaxChanges  == 3    \* changes in a payload handed to the Batch Applier alone
MaxApplies  == 2    \* committed process_sync_payload calls on one payload
MaxFailures == 1    \* create_sync_payload invocations that a store failure ends

----------------------------------------------------------------------------
(* Values *)

NULL == "NULL"

EmpIds == {"EMP001", "EMP002"}

TrackedFields == {"first_name", "last_name", "email", "department",
                  "position", "salary", "status"}

EmptyMap == << >>

----------------------------------------------------------------------------
(* SQL three-valued logic, as the update trigger's WHEN clause uses it *)

SqlTrue  == "TRUE"
SqlFalse == "FALSE"

SqlNe(a, b) ==
    IF a = NULL \/ b = NULL THEN NULL
    ELSE IF a # b THEN SqlTrue ELSE SqlFalse

SqlOr(p, q) ==
    IF p = SqlTrue \/ q = SqlTrue THEN SqlTrue
    ELSE IF p = NULL \/ q = NULL THEN NULL
    ELSE SqlFalse

----------------------------------------------------------------------------
(* HR store: triggers *)

\* INSERT INTO employee_change_log (...): id is AUTOINCREMENT, change_timestamp
\* defaults to CURRENT_TIMESTAMP, processed defaults to FALSE
LogInsert(log, e, type, old, new, ts) ==
    Append(log, [id               |-> Len(log) + 1,
                 employee_id      |-> e,
                 change_type      |-> type,
                 old_values       |-> old,
                 new_values       |-> new,
                 change_timestamp |-> ts,
                 processed        |-> FALSE])

UpdateTriggerWhen(old, new) ==
    SqlOr(SqlNe(old.first_name, new.first_name),
    SqlOr(SqlNe(old.last_name, new.last_name),
    SqlOr(SqlNe(old.email, new.email),
    SqlOr(SqlNe(old.department, new.department),
    SqlOr(SqlNe(old.position, new.position),
    SqlOr(SqlNe(old.salary, new.salary),
          SqlNe(old.status, new.status))))))) = SqlTrue

\* json_object('first_name', R.first_name, ..., 'status', R.status)
TrackedSnapshot(row) == [f \in TrackedFields |-> row[f]]

\* json_object('employee_id', NEW.employee_id, 'first_name', ..., 'status', ...)
InsertSnapshot(e, row) ==
    [f \in TrackedFields \cup {"employee_id"} |->
        IF f = "employee_id" THEN e ELSE row[f]]

\* employee_update_trigger that stores the changed fields only
employee_update_trigger_diff(log, e, old, new, ts) ==
    IF UpdateTriggerWhen(old, new)
    THEN LET D == {f \in TrackedFields : old[f] # new[f]}
         IN  LogInsert(log, e, "UPDATE", [f \in D |-> old[f]], [f \in D |-> new[f]], ts)
    ELSE log

employee_update_trigger(log, e, old, new, ts) ==
    IF UpdateTriggerWhen(old, new)
    THEN LogInsert(log, e, "UPDATE", TrackedSnapshot(old), TrackedSnapshot(new), ts)
    ELSE log

employee_insert_trigger(log, e, new, ts) ==
    LogInsert(log, e, "INSERT", EmptyMap, InsertSnapshot(e, new), ts)

----------------------------------------------------------------------------
(* HR store: statements.  Each returns the tables as the statement leaves  *)
(* them inside the caller's transaction, or ok = FALSE when a constraint   *)
(* aborts the statement (IntegrityError), in which case nothing is changed *)

PutRow(tbl, e, row) ==
    [k \in DOMAIN tbl \cup {e} |-> IF k = e THEN row ELSE tbl[k]]

EmailTaken(tbl, em, except) ==
    \E k \in DOMAIN tbl \ except : tbl[k].email = em

\* INSERT INTO employees (employee_id, first_name, last_name, email,
\*                        department, position, salary) VALUES (...)
InsertEmployeeStmt(emps, log, e, row, ts) ==
    IF \/ e \in DOMAIN emps                         \* PRIMARY KEY
       \/ row.first_name = NULL                     \* NOT NULL
       \/ row.last_name = NULL
       \/ row.email = NULL
       \/ EmailTaken(emps, row.email, {})           \* UNIQUE
    THEN [ok |-> FALSE, employees |-> emps, change_log |-> log]
    ELSE [ok |-> TRUE,
          employees  |-> PutRow(emps, e, row),
          change_log |-> employee_insert_trigger(log, e, row, ts)]

\* UPDATE employees SET f1 = ?, ... WHERE employee_id = ?
UpdateEmployeeStmt(emps, log, e, update_fields, ts) ==
    IF e \notin DOMAIN emps
    THEN [ok |-> TRUE, employees |-> emps, change_log |-> log]
    ELSE LET old == emps[e]
             new == [f \in DOMAIN old |->
                        IF f \in DOMAIN update_fields THEN update_fields[f] ELSE old[f]]
         IN  IF \/ new.first_name = NULL
                \/ new.last_name = NULL
                \/ new.email = NULL
                \/ EmailTaken(emps, new.email, {e})
             THEN [ok |-> FALSE, employees |-> emps, change_log |-> log]
             ELSE [ok |-> TRUE,
                   employees  |-> PutRow(emps, e, new),
                   change_log |-> employee_update_trigger(log, e, old, new, ts)]

----------------------------------------------------------------------------
(* scripts/add_update_employee.py.  cursor.execute runs the statement and  *)
(* its trigger inside the connection's implicit transaction; conn.commit() *)
(* is a later step.  Other connections see committed data only.            *)

WriterIdle == [pc |-> "idle", employees |-> << >>, change_log |-> << >>, changed |-> FALSE]

WriteOutcome(outcome, changed, events) ==
    [outcome |-> outcome, changed |-> changed, events |-> events]

\* add_employee(employee_id, first_name, last_name, email, department, position, salary)
\* up to, not including, conn.commit(); status is left to its DEFAULT 'active'
add_employee(e, first_name, last_name, email, department, position, salary) ==
    /\ writer.pc = "idle"
    /\ UNCHANGED hrVars
    /\ IF e \in DOMAIN employees
       THEN \* "already exists. Use update_employee() instead."
            /\ last_write' = WriteOutcome("exists", FALSE, 0)
            /\ UNCHANGED writer
       ELSE LET row  == [first_name |-> first_name, last_name |-> last_name,
                         email |-> email, department |-> department,
                         position |-> position, salary |-> salary,
                         status |-> "active"]
                stmt == InsertEmployeeStmt(employees, change_log, e, row, now)
            IN  IF stmt.ok
                THEN /\ writer' = [pc |-> "executed", employees |-> stmt.employees,
                                   change_log |-> stmt.change_log, changed |-> TRUE]
                     /\ UNCHANGED last_write
                ELSE \* IntegrityError leaves the function; the connection is
                     \* dropped without commit and its transaction rolled back
                     /\ last_write' = WriteOutcome("failed", TRUE,
                                                   Len(change_log') - Len(change_log))
                     /\ UNCHANGED writer
    /\ UNCHANGED <<now, changing_writes, extVars, payrollVars, applyVars>>

\* update_employee(employee_id, **updates) up to, not including, conn.commit()
update_employee(e, updates) ==
    /\ writer.pc = "idle"
    /\ UNCHANGED hrVars
    /\ LET valid_fields  == TrackedFields
           update_keys   == {k \in DOMAIN updates : k \in valid_fields /\ updates[k] # NULL}
           update_fields == [k \in update_keys |-> updates[k]]
       IN  IF e \notin DOMAIN employees \/ update_keys = {}
           THEN \* "not found." / "No valid fields to update."
                /\ last_write' = WriteOutcome("skipped", FALSE, 0)
                /\ UNCHANGED writer
           ELSE LET stmt == UpdateEmployeeStmt(employees, change_log, e, update_fields, now)
                IN  IF stmt.ok
                    THEN /\ writer' = [pc |-> "executed", employees |-> stmt.employees,
                                       change_log |-> stmt.change_log,
                                       changed |-> stmt.employees[e] # employees[e]]
                         /\ UNCHANGED last_write
                    ELSE /\ last_write' = WriteOutcome("failed", TRUE,
                                                       Len(change_log') - Len(change_log))
                         /\ UNCHANGED writer
    /\ UNCHANGED <<now, changing_writes, extVars, payrollVars, applyVars>>

\* how the call of add_employee / update_employee that left last_write came
\* to its end: no try/except surrounds cursor.execute (lines 24-28, 91), so
\* the sqlite3.IntegrityError of a failed statement leaves the function as an
\* exception; on every other path the function returns
WriterEnds == IF last_write.outcome = "failed" THEN "raised" ELSE "returned"

\* conn.commit() of add_employee / update_employee: the entity write and the
\* trigger's change-log row become visible together
WriterCommit ==
    /\ writer.pc = "executed"
    /\ employees' = writer.employees
    /\ change_log' = writer.change_log
    /\ last_write' = WriteOutcome("committed", writer.changed,
                                  Len(writer.change_log) - Len(change_log))
    /\ changing_writes' = changing_writes + (IF writer.changed THEN 1 ELSE 0)
    /\ writer' = WriterIdle
    /\ UNCHANGED <<now, extVars, payrollVars, applyVars>>

\* the script dies between cursor.execute and conn.commit(): SQLite rolls the
\* open transaction back, entity row and change-log row alike
WriterAbort ==
    /\ writer.pc = "executed"
    /\ UNCHANGED hrVars
    /\ last_write' = WriteOutcome("rolled_back", writer.changed,
                                  Len(change_log') - Len(change_log))
    /\ writer' = WriterIdle
    /\ UNCHANGED <<now, changing_writes, extVars, payrollVars, applyVars>>

Tick ==
    /\ now < MaxTime
    /\ now' = now + 1
    /\ UNCHANGED <<hrVars, writerVars, extVars, payrollVars, applyVars>>

----------------------------------------------------------------------------
(* hr_mcp_server.py: create_sync_payload.  One invocation is: the SELECT   *)
(* (autocommit read of committed rows), then, when rows were found, the    *)
(* write of the payload file, then UPDATE ... SET processed = TRUE and     *)
(* commit.  Nothing ties the SELECT and the UPDATE into one transaction.   *)

Extractors == {1, 2}

NoFile == << >>

ExtIdle == [pc |-> "idle", changes |-> << >>, run |-> 0, writes_at_start |-> 0,
            file_at_start |-> NoFile]

\* ORDER BY cl.change_timestamp ASC: the orders of the rows S of log the
\* statement may return them in (rows of one second come in any order)
OrderedBy(log, S) ==
    {o \in [1..Cardinality(S) -> S] :
        /\ \A i, j \in DOMAIN o : i # j => o[i] # o[j]
        /\ \A i, j \in DOMAIN o :
              i < j => log[o[i]].change_timestamp <= log[o[j]].change_timestamp}

\* LEFT JOIN employees e ON cl.employee_id = e.employee_id
CurrentEmployeeData(emps, e) ==
    IF e \in DOMAIN emps THEN TrackedSnapshot(emps[e])
    ELSE [f \in TrackedFields |-> NULL]

\* one element of `changes`, built from one row of the SELECT
ChangeData(emps, row) ==
    [log_id                |-> row.id,
     employee_id           |-> row.employee_id,
     change_type           |-> row.change_type,
     old_values            |-> row.old_values,
     new_values            |-> row.new_values,
     change_timestamp      |-> row.change_timestamp,
     current_employee_data |-> CurrentEmployeeData(emps, row.employee_id)]

\* SelectedRows without its WHERE clause: every row of the log is selected
SelectedRowsNoWhere(log) == DOMAIN log

\* SelectedRows that never returns a row after the first of the log
SelectedRowsOldest(log) == {i \in DOMAIN log : ~log[i].processed /\ log[i].id = 1}

\* WHERE cl.processed = FALSE
SelectedRows(log) == {i \in DOMAIN log : ~log[i].processed}

\* the SELECT and the loop over cursor.fetchall(), in the order o
SelectChanges(emps, log, o) == [i \in DOMAIN o |-> ChangeData(emps, log[o[i]])]

\* BuildPayload that merges the new changes into the content of the file
BuildPayloadMerged(changes, ts) ==
    LET fresh == [generated_by |-> "HR Change Detection System",
                  sync_id      |-> <<"SYNC", ts>>,
                  status       |-> "ready_for_sync"]
        old   == IF payload_file = NoFile \/ "changes" \notin DOMAIN payload_file
                 THEN [changes |-> << >>, metadata |-> fresh]
                 ELSE payload_file
    IN  [source_system  |-> "hr_system",
         target_system  |-> "payroll_system",
         sync_timestamp |-> ts,
         total_changes  |-> Len(old.changes) + Len(changes),
         changes        |-> old.changes \o changes,
         metadata       |-> old.metadata]

\* payload = {...}
BuildPayload(changes, ts) ==
    [source_system  |-> "hr_system",
     target_system  |-> "payroll_system",
     sync_timestamp |-> ts,
     total_changes  |-> Len(changes),
     changes        |-> changes,
     metadata       |-> [generated_by |-> "HR Change Detection System",
                         sync_id      |-> <<"SYNC", ts>>,
                         status       |-> "ready_for_sync"]]

\* LogIds that takes the log_id of the first change only
LogIdsFirst(changes) == {changes[i].log_id : i \in DOMAIN changes \cap {1}}

\* log_ids = [change["log_id"] for change in changes]
LogIds(changes) == {changes[i].log_id : i \in DOMAIN changes}

\* MarkProcessed whose UPDATE has no WHERE clause: every row is flagged
MarkProcessedAll(log, log_ids) ==
    [i \in DOMAIN log |-> [log[i] EXCEPT !.processed = TRUE]]

\* MarkProcessed whose UPDATE never takes effect
MarkProcessedLost(log, log_ids) == log

\* MarkProcessed whose UPDATE sets processed = (id IN (log_ids)) on every row
MarkProcessedOnly(log, log_ids) ==
    [i \in DOMAIN log |-> [log[i] EXCEPT !.processed = (log[i].id \in log_ids)]]

\* UPDATE employee_change_log SET processed = TRUE WHERE id IN (log_ids)
MarkProcessed(log, log_ids) ==
    [i \in DOMAIN log |->
        IF log[i].id \in log_ids THEN [log[i] EXCEPT !.processed = TRUE] ELSE log[i]]

RunResult(run, status, n, x) ==
    [run               |-> run,
     status            |-> status,
     changes_processed |-> n,
     wrote             |-> payload_file # ext[x].file_at_start,
     writes_at_start   |-> ext[x].writes_at_start,
     writes_at_end     |-> changing_writes,
     prev_status       |-> last_run.status,
     prev_changes_processed |-> last_run.changes_processed,
     prev_writes_at_start |-> last_run.writes_at_start]

\* lines 99-156: SELECT; with no row, return changes_processed = 0
Select(x) ==
    /\ ext[x].pc = "idle"
    /\ \E o \in OrderedBy(change_log, SelectedRows(change_log)) :
          LET changes == SelectChanges(employees, change_log, o)
              started == [pc |-> "selected", changes |-> changes, run |-> runs + 1,
                          writes_at_start |-> changing_writes,
                          file_at_start |-> payload_file]
          IN  IF changes = << >>
              THEN /\ ext' = [ext EXCEPT ![x] = ExtIdle]
                   /\ runs' = runs
                   /\ last_run' = [run |-> 0, status |-> "success",
                                   changes_processed |-> 0, wrote |-> FALSE,
                                   writes_at_start |-> changing_writes,
                                   writes_at_end |-> changing_writes,
                                   prev_status |-> last_run.status,
                                   prev_changes_processed |-> last_run.changes_processed,
                                   prev_writes_at_start |-> last_run.writes_at_start]
              ELSE /\ ext' = [ext EXCEPT ![x] = started]
                   /\ runs' = runs + 1
                   /\ UNCHANGED last_run
    /\ UNCHANGED <<hrVars, now, writerVars, payload_file, written, flag_runs,
                   failed_runs, detected, payrollVars, applyVars>>

\* lines 158-175: build the payload and overwrite the payload file
WritePayload(x) ==
    /\ ext[x].pc = "selected"
    /\ payload_file' = BuildPayload(ext[x].changes, now)
    /\ written' = Append(written, [run |-> ext[x].run,
                                   log_ids |-> LogIds(ext[x].changes),
                                   sync_id |-> payload_file'.metadata.sync_id,
                                   audit_at_write |-> Len(sync_log)])
    /\ ext' = [ext EXCEPT ![x].pc = "written"]
    /\ UNCHANGED <<hrVars, now, writerVars, runs, flag_runs, last_run,
                   failed_runs, detected, payrollVars, applyVars>>

\* lines 177-202: flag the selected rows, commit, return success.  The UPDATE
\* needs the write lock, so it waits while the writer's transaction is open
FlagCommit(x) ==
    /\ ext[x].pc = "written"
    /\ writer.pc = "idle"
    /\ LET log_ids == LogIds(ext[x].changes)
       IN  /\ change_log' = MarkProcessed(change_log, log_ids)
           /\ flag_runs' = flag_runs \cup
                 {<<change_log[i].id, ext[x].run>> : i \in
                     {j \in DOMAIN change_log :
                         ~change_log[j].processed /\ change_log'[j].processed}}
    /\ last_run' = RunResult(ext[x].run, "success", Len(ext[x].changes), x)
    /\ ext' = [ext EXCEPT ![x] = ExtIdle]
    /\ UNCHANGED <<employees, now, writerVars, payload_file, runs, written,
                   failed_runs, detected, payrollVars, applyVars>>

\* detect_changes that flags the rows it has returned
detect_changes_flagging ==
    /\ \E o \in OrderedBy(change_log, SelectedRows(change_log)) :
          LET changes == SelectChanges(employees, change_log, o)
          IN  /\ detected' = [status |-> "success", changes_count |-> Len(changes),
                              changes |-> changes]
              /\ change_log' = MarkProcessed(change_log, LogIds(changes))
    /\ UNCHANGED <<employees, now, writerVars, ext, payload_file, runs, written,
                   flag_runs, last_run, failed_runs, payrollVars, applyVars>>

\* detect_changes, lines 28-87: the same SELECT, no write of any kind
detect_changes ==
    /\ \E o \in OrderedBy(change_log, SelectedRows(change_log)) :
          LET changes == SelectChanges(employees, change_log, o)
          IN  detected' = [status |-> "success", changes_count |-> Len(changes),
                           changes |-> changes]
    /\ UNCHANGED <<hrVars, now, writerVars, ext, payload_file, runs, written,
                   flag_runs, last_run, failed_runs, payrollVars, applyVars>>

\* a payload file that open(PAYLOAD_PATH, 'w') has truncated and json.dump
\* has not finished
Truncated == [truncated |-> TRUE]

\* the rows of the log after the except clause, had it committed the flags
RolledBackFlagged(log, log_ids) ==
    [i \in DOMAIN log |->
        IF log[i].id \in log_ids THEN [log[i] EXCEPT !.processed = TRUE] ELSE log[i]]

\* except Exception (lines 240-242): the function returns {"error": ...} and
\* drops its connection without commit, which leaves the change log as it is
RolledBack(log, log_ids) == log

\* lines 172-175 raise (OSError): open() fails and the file is as before, or
\* the write fails midway and the file is left truncated; lines 240-242 return
\* the error
WritePayloadFails(x) ==
    /\ ext[x].pc = "selected"
    /\ payload_file' \in {payload_file, Truncated}
    /\ change_log' = RolledBack(change_log, LogIds(ext[x].changes))
    /\ failed_runs' = failed_runs \cup {<<ext[x].run, "write">>}
    /\ last_run' = [RunResult(ext[x].run, "error", 0, x) EXCEPT
                        !.wrote = payload_file' # ext[x].file_at_start]
    /\ ext' = [ext EXCEPT ![x] = ExtIdle]
    /\ UNCHANGED <<employees, now, writerVars, runs, written, flag_runs, detected,
                   payrollVars, applyVars>>

\* lines 181-187 raise (sqlite3.OperationalError: the database is locked, a
\* disk I/O error) after the payload file was written; lines 240-242 return
\* the error
FlagFails(x) ==
    /\ ext[x].pc = "written"
    /\ change_log' = RolledBack(change_log, LogIds(ext[x].changes))
    /\ failed_runs' = failed_runs \cup {<<ext[x].run, "flag">>}
    /\ last_run' = RunResult(ext[x].run, "error", 0, x)
    /\ ext' = [ext EXCEPT ![x] = ExtIdle]
    /\ UNCHANGED <<employees, now, writerVars, payload_file, runs, written,
                   flag_runs, detected, payrollVars, applyVars>>

----------------------------------------------------------------------------
(* payroll_agent.py: process_sync_payload.  The target-store statements    *)
(* run inside the connection's implicit transaction; an exception leaves   *)
(* the function before conn.commit(), and the transaction is rolled back.  *)

InsertKeys == TrackedFields \cup {"employee_id"}
UpdateKeys == TrackedFields

\* str() of a value inside an f-string
Str(v) == IF v = NULL THEN "None" ELSE v

\* full_name = f"{new_data['first_name']} {new_data['last_name']}"
FullName(new_data) == Str(new_data.first_name) \o " " \o Str(new_data.last_name)

\* INSERT OR REPLACE INTO payroll_employees (employee_id, full_name, email,
\* department, position, base_salary, tax_status, last_sync_timestamp):
\* rows that collide on employee_id (PRIMARY KEY) or on email (UNIQUE) are
\* deleted, then the row is inserted; pay_grade is not listed and is NULL
InsertOrReplace(tbl, new_data, ts) ==
    LET kept == {k \in DOMAIN tbl :
                    k # new_data.employee_id /\ tbl[k].email # new_data.email}
        row  == [full_name |-> FullName(new_data), email |-> new_data.email,
                 department |-> new_data.department, position |-> new_data.position,
                 base_salary |-> new_data.salary, pay_grade |-> NULL,
                 tax_status |-> new_data.status, last_sync_timestamp |-> ts]
    IN  PutRow([k \in kept |-> tbl[k]], new_data.employee_id, row)

\* UPDATE payroll_employees SET full_name=?, email=?, department=?, position=?,
\* base_salary=?, tax_status=?, last_sync_timestamp=? WHERE employee_id=?
UpdatePayrollRow(tbl, employee_id, new_data, ts) ==
    IF employee_id \notin DOMAIN tbl THEN tbl
    ELSE [tbl EXCEPT ![employee_id] =
            [full_name |-> FullName(new_data), email |-> new_data.email,
             department |-> new_data.department, position |-> new_data.position,
             base_salary |-> new_data.salary, pay_grade |-> @.pay_grade,
             tax_status |-> new_data.status, last_sync_timestamp |-> ts]]

\* Deactivate as DELETE FROM payroll_employees WHERE employee_id=?
DeactivateRemoving(tbl, employee_id, ts) ==
    [k \in DOMAIN tbl \ {employee_id} |-> tbl[k]]

\* UPDATE payroll_employees SET tax_status='inactive', last_sync_timestamp=?
\* WHERE employee_id=?
Deactivate(tbl, employee_id, ts) ==
    IF employee_id \notin DOMAIN tbl THEN tbl
    ELSE [tbl EXCEPT ![employee_id].tax_status = "inactive",
                     ![employee_id].last_sync_timestamp = ts]

\* one pass of the loop body, lines 76-128: ok = FALSE when it raises
\* (KeyError on a missing key, IntegrityError on NOT NULL / UNIQUE email)
ApplyChange(tbl, change, ts) ==
    LET employee_id == change.employee_id
        change_type == change.change_type
        new_data    == change.new_values
    IN  IF change_type = "INSERT"
        THEN IF ~(InsertKeys \subseteq DOMAIN new_data)
             THEN [ok |-> FALSE, tbl |-> tbl]
             ELSE IF new_data.email = NULL
             THEN [ok |-> FALSE, tbl |-> tbl]
             ELSE [ok |-> TRUE, tbl |-> InsertOrReplace(tbl, new_data, ts)]
        ELSE IF change_type = "UPDATE"
        THEN IF ~(UpdateKeys \subseteq DOMAIN new_data)
             THEN [ok |-> FALSE, tbl |-> tbl]
             ELSE IF /\ employee_id \in DOMAIN tbl
                     /\ \/ new_data.email = NULL
                        \/ EmailTaken(tbl, new_data.email, {employee_id})
             THEN [ok |-> FALSE, tbl |-> tbl]
             ELSE [ok |-> TRUE, tbl |-> UpdatePayrollRow(tbl, employee_id, new_data, ts)]
        ELSE IF change_type = "DELETE"
        THEN [ok |-> TRUE, tbl |-> Deactivate(tbl, employee_id, ts)]
        ELSE [ok |-> TRUE, tbl |-> tbl]

\* the loop of lines 76-128 over changes[i..]: trail holds the table after
\* each change applied so far; the loop stops at the first change that raises
RECURSIVE ApplyFrom(_, _, _, _, _)
ApplyFrom(tbl, changes, i, ts, trail) ==
    IF i > Len(changes)
    THEN [ok |-> TRUE, tbl |-> tbl, trail |-> trail, processed_count |-> Len(changes)]
    ELSE LET r == ApplyChange(tbl, changes[i], ts)
         IN  IF r.ok
             THEN ApplyFrom(r.tbl, changes, i + 1, ts, Append(trail, r.tbl))
             ELSE [ok |-> FALSE, tbl |-> tbl, trail |-> trail, processed_count |-> i - 1]

ApplyChanges(tbl, changes, ts) == ApplyFrom(tbl, changes, 1, ts, << >>)

ApplierIdle == [pc |-> "idle", payload |-> NoFile]

\* SyncLogRows that writes no audit row
SyncLogRowsSkipped(log, changes) == log

\* lines 130-140: INSERT INTO sync_log (employee_id, sync_type, source_data,
\* sync_status) for each change of the payload
SyncLogRows(log, changes) ==
    log \o [i \in DOMAIN changes |->
              [id            |-> Len(log) + i,
               employee_id   |-> changes[i].employee_id,
               sync_type     |-> <<"HR", changes[i].change_type>>,
               source_data   |-> changes[i],
               sync_status   |-> "completed",
               error_message |-> NULL]]

\* Annotated that writes the file back without the changes it has applied
AnnotatedEmptied(payload, ts) ==
    [payload EXCEPT !.changes = << >>,
                    !.total_changes = 0,
                    !.metadata =
        [k \in DOMAIN payload.metadata \cup {"processed_timestamp", "processed_by"} |->
            IF k = "status" THEN "processed"
            ELSE IF k = "processed_timestamp" THEN ts
            ELSE IF k = "processed_by" THEN "Payroll System Agent"
            ELSE payload.metadata[k]]]

\* lines 145-148: the loaded payload with its metadata annotated
Annotated(payload, ts) ==
    [payload EXCEPT !.metadata =
        [k \in DOMAIN payload.metadata \cup {"processed_timestamp", "processed_by"} |->
            IF k = "status" THEN "processed"
            ELSE IF k = "processed_timestamp" THEN ts
            ELSE IF k = "processed_by" THEN "Payroll System Agent"
            ELSE payload.metadata[k]]]

ApplyOutcome(status, processed_count, payload, res, nth) ==
    [status          |-> status,
     processed_count |-> processed_count,
     status_before   |-> IF payload = NoFile THEN "none" ELSE payload.metadata.status,
     changes         |-> IF payload = NoFile THEN << >> ELSE payload.changes,
     table_before    |-> payroll_employees,
     audit_before    |-> Len(sync_log),
     trail           |-> res.trail,
     failed_at       |-> IF res.ok THEN 0 ELSE res.processed_count + 1,
     nth             |-> nth]

\* ReportNotFound that leaves an audit row behind
ReportNotFoundAudited ==
    /\ last_apply' = ApplyOutcome("not_found", 0, NoFile,
                                  [ok |-> TRUE, trail |-> << >>], last_apply.nth)
    /\ sync_log' = Append(sync_log, [id |-> Len(sync_log) + 1, employee_id |-> NULL,
                                     sync_type |-> NULL, source_data |-> NULL,
                                     sync_status |-> "failed",
                                     error_message |-> "No sync payload found"])
    /\ UNCHANGED <<payroll_employees, applier>>

\* lines 60-61: "No sync payload found", returned before any store is opened
ReportNotFound ==
    /\ last_apply' = ApplyOutcome("not_found", 0, NoFile,
                                  [ok |-> TRUE, trail |-> << >>], last_apply.nth)
    /\ UNCHANGED <<payrollVars, applier>>

\* ApplyRolledBack that keeps what the statements before the exception wrote
ApplyPartlyKept(before, partial) == partial

\* except Exception (lines 168-171): conn.commit() at line 142 was not reached
\* and the connection is dropped, so its transaction is never committed: the
\* table is as it was before the run, whatever the statements before the
\* exception wrote
ApplyRolledBack(before, partial) == before

\* lines 63-143: load the payload, apply every change, write the audit rows,
\* commit; the error message when json.load or a change raises
ApplyPayload ==
    IF payload_file = Truncated
    THEN \* json.JSONDecodeError
         /\ last_apply' = [ApplyOutcome("error", 0, NoFile,
                                        [ok |-> TRUE, trail |-> << >>], 0)
                              EXCEPT !.status_before = "unreadable"]
         /\ UNCHANGED <<payrollVars, applier>>
    ELSE LET payload == payload_file
             res == ApplyChanges(payroll_employees, payload.changes, now)
             again == last_apply.nth > 0 /\ last_apply.changes = payload.changes
         IN  IF res.ok
             THEN /\ payroll_employees' = res.tbl
                  /\ sync_log' = SyncLogRows(sync_log, payload.changes)
                  /\ applier' = [pc |-> "committed", payload |-> payload]
                  /\ last_apply' = ApplyOutcome("committed", res.processed_count,
                                       payload, res,
                                       IF again THEN last_apply.nth + 1 ELSE 1)
             ELSE /\ last_apply' = ApplyOutcome("error", res.processed_count,
                                       payload, res,
                                       IF again THEN last_apply.nth ELSE 0)
                  /\ payroll_employees' = ApplyRolledBack(payroll_employees, res.tbl)
                  /\ UNCHANGED <<sync_log, applier>>

\* lines 58-143, "No sync payload found" without a file
process_sync_payload ==
    /\ applier.pc = "idle"
    /\ IF payload_file = NoFile THEN ReportNotFound ELSE ApplyPayload
    /\ UNCHANGED <<hrVars, now, writerVars, extVars>>

\* lines 145-166: write the annotated payload back to the file, return the summary
AnnotatePayload ==
    /\ applier.pc = "committed"
    /\ payload_file' = Annotated(applier.payload, now)
    /\ applier' = ApplierIdle
    /\ last_apply' = [last_apply EXCEPT !.status = "completed"]
    /\ UNCHANGED <<hrVars, now, writerVars, ext, runs, written, flag_runs, last_run,
                   failed_runs, detected, payrollVars>>

\* lines 151-152 raise (OSError) after conn.commit() at line 142: open() fails
\* and the file is as before, or the write fails midway and the file is left
\* truncated; lines 168-171 return the error message, the commit stands
AnnotatePayloadFails ==
    /\ applier.pc = "committed"
    /\ payload_file' \in {payload_file, Truncated}
    /\ applier' = ApplierIdle
    /\ last_apply' = [last_apply EXCEPT !.status = "error"]
    /\ failed_runs' = failed_runs \cup {<<last_apply.audit_before, "annotate">>}
    /\ UNCHANGED <<hrVars, now, writerVars, ext, runs, written, flag_runs, last_run,
                   detected, payrollVars>>

----------------------------------------------------------------------------
(* Initial state: scripts/init_hr_db.py and scripts/init_payroll_db.py run *)
(* (with one of the sample employees), no payload file yet                 *)

SampleEmployee ==
    [first_name |-> "John", last_name |-> "Doe", email |-> "a@co",
     department |-> "Engineering", position |-> "Senior Developer",
     salary |-> "95000.0", status |-> "active"]

SamplePayrollEmployee ==
    [full_name |-> "John Doe", email |-> "a@co", department |-> "Engineering",
     position |-> "Senior Developer", base_salary |-> "95000.0",
     pay_grade |-> "L5", tax_status |-> "active", last_sync_timestamp |-> NULL]

\* the triggers exist before the sample rows are inserted, so each sample row
\* leaves its INSERT event in the change log
init_hr_database ==
    InsertEmployeeStmt(<< >>, << >>, "EMP001", SampleEmployee, 0)

init_payroll_database == PutRow(<< >>, "EMP001", SamplePayrollEmployee)

NoWrite == WriteOutcome("none", FALSE, 0)

NoRun == [run |-> 0, status |-> "none", changes_processed |-> 0, wrote |-> FALSE,
          writes_at_start |-> 0 - 1, writes_at_end |-> 0 - 1,
          prev_status |-> "none", prev_changes_processed |-> 0,
          prev_writes_at_start |-> 0 - 1]

NoDetect == [status |-> "none", changes_count |-> 0, changes |-> << >>]

NoApply ==
    [status |-> "none", processed_count |-> 0, status_before |-> "none",
     changes |-> << >>, table_before |-> << >>, audit_before |-> 0,
     trail |-> << >>, failed_at |-> 0, nth |-> 0]

InitHR ==
    /\ employees = init_hr_database.employees
    /\ change_log = init_hr_database.change_log
    /\ now = 0
    /\ writer = WriterIdle
    /\ last_write = NoWrite
    /\ changing_writes = 0

InitExtractor ==
    /\ ext = [x \in Extractors |-> ExtIdle]
    /\ payload_file = NoFile
    /\ runs = 0
    /\ written = << >>
    /\ flag_runs = {}
    /\ last_run = NoRun
    /\ failed_runs = {}
    /\ detected = NoDetect

InitPayroll ==
    /\ payroll_employees = init_payroll_database
    /\ sync_log = << >>
    /\ applier = ApplierIdle
    /\ last_apply = NoApply

Init == InitHR /\ InitExtractor /\ InitPayroll

----------------------------------------------------------------------------
(* Callers: the arguments the scripts are run with *)

UpdateChoices ==
    {[email |-> em] : em \in {"b@co", "c@co"}}
    \cup {[department |-> d] : d \in {"Marketing", NULL}}
    \cup {[salary |-> "105000.0", position |-> "Principal Developer"]}
    \cup {[status |-> "inactive"]}

AddEmployee ==
    /\ changing_writes < MaxWrites
    /\ \E e \in EmpIds, em \in {"a@co", "b@co"}, d \in {NULL, "Marketing"} :
        add_employee(e, "Jane", "Smith", em, d, "Marketing Manager", "85000.0")

UpdateEmployee ==
    /\ changing_writes < MaxWrites
    /\ \E e \in EmpIds, u \in UpdateChoices : update_employee(e, u)

\* Change Recorder alone
NextRecorder ==
    \/ AddEmployee
    \/ UpdateEmployee
    \/ WriterCommit
    \/ WriterAbort
    \/ Tick

SpecRecorder == Init /\ [][NextRecorder]_vars

----------------------------------------------------------------------------
(* Change Recorder and Batch Extractor *)

AddOne ==
    /\ changing_writes < MaxMutation
    /\ add_employee("EMP002", "Jane", "Smith", "b@co", "Marketing",
                 "Marketing Manager", "85000.0")

UpdateOne ==
    /\ changing_writes < MaxMutation
    /\ \E e \in EmpIds, u \in {[email |-> "c@co"], [status |-> "inactive"]} :
        update_employee(e, u)

AllIdle == \A x \in Extractors : ext[x].pc = "idle"

\* one create_sync_payload at a time (a single server process runs each
\* tool call to its end), no store failure
SelectAlone == AllIdle /\ runs < MaxRuns /\ Select(1)

NextSerial ==
    \/ AddOne
    \/ UpdateOne
    \/ WriterCommit
    \/ Tick
    \/ SelectAlone
    \/ \E x \in Extractors : WritePayload(x)
    \/ \E x \in Extractors : FlagCommit(x)

SpecSerial == Init /\ [][NextSerial]_vars

\* create_sync_payload invocations that overlap (more than one server process
\* on the same data directory), no store failure
NextConcurrent ==
    \/ AddOne
    \/ UpdateOne
    \/ WriterCommit
    \/ Tick
    \/ \E x \in Extractors : runs < MaxRuns /\ Select(x)
    \/ \E x \in Extractors : WritePayload(x)
    \/ \E x \in Extractors : FlagCommit(x)

SpecConcurrent == Init /\ [][NextConcurrent]_vars

----------------------------------------------------------------------------
(* The whole system as orchestrator_new.py drives it: add_employee writes   *)
(* to the HR store at any time; detect_changes, create_sync_payload and     *)
(* process_sync_payload are tool calls of which one runs at a time; a store *)
(* failure may end a create_sync_payload.  The clock stands still: all of   *)
(* it happens within one second                                             *)

UpdateJohn ==
    /\ changing_writes < MaxMutation
    /\ update_employee("EMP001", [email |-> "c@co"])

ApplyBatch ==
    /\ last_apply.nth < MaxApplies
    /\ process_sync_payload

DetectChanges == AllIdle /\ applier.pc = "idle" /\ detect_changes

SelectNext == applier.pc = "idle" /\ SelectAlone

FailuresLeft == Cardinality(failed_runs) < MaxFailures

WriteFailure == FailuresLeft /\ \E x \in Extractors : WritePayloadFails(x)

FlagFailure == FailuresLeft /\ \E x \in Extractors : FlagFails(x)

ApplyNext == AllIdle /\ ApplyBatch

NextSystem ==
    \/ AddOne
    \/ WriterCommit
    \/ DetectChanges
    \/ SelectNext
    \/ \E x \in Extractors : WritePayload(x)
    \/ \E x \in Extractors : FlagCommit(x)
    \/ WriteFailure
    \/ FlagFailure
    \/ ApplyNext
    \/ AnnotatePayload

SpecSystem == Init /\ [][NextSystem]_vars

\* the same system, where the write-back of the annotated payload may fail too
AnnotateFailure == FailuresLeft /\ AnnotatePayloadFails

NextAnnotate ==
    \/ AddOne
    \/ WriterCommit
    \/ SelectNext
    \/ \E x \in Extractors : WritePayload(x)
    \/ \E x \in Extractors : FlagCommit(x)
    \/ ApplyNext
    \/ AnnotatePayload
    \/ AnnotateFailure

SpecAnnotate == Init /\ [][NextAnnotate]_vars

\* create_sync_payload invoked again and again, one at a time, each step of an
\* invocation taken in the end, store failures ending finitely many of them
SelectAgain == AllIdle /\ Select(1)

NextLive ==
    \/ AddOne
    \/ UpdateJohn
    \/ WriterCommit
    \/ SelectAgain
    \/ \E x \in Extractors : WritePayload(x)
    \/ \E x \in Extractors : FlagCommit(x)
    \/ WriteFailure
    \/ FlagFailure

SpecLive ==
    /\ Init
    /\ [][NextLive]_vars
    /\ WF_vars(WriterCommit)
    /\ WF_vars(SelectAgain)
    /\ WF_vars(WritePayload(1))
    /\ SF_vars(FlagCommit(1))

----------------------------------------------------------------------------
(* The sync cycle of the orchestrator's workflow: a create_sync_payload     *)
(* that wrote a payload is followed by a process_sync_payload before the    *)
(* next create_sync_payload; HR staff add an employee, with or without a    *)
(* department, and assign the department later                              *)

AddJane ==
    /\ changing_writes < MaxMutation
    /\ \E d \in {NULL, "Marketing"} :
          add_employee("EMP002", "Jane", "Smith", "b@co", d,
                       "Marketing Manager", "85000.0")

AssignDepartment ==
    /\ changing_writes < MaxMutation
    /\ update_employee("EMP002", [department |-> "Marketing"])

\* detect_hr_changes: no payload is waiting to be applied
SyncSelect ==
    /\ applier.pc = "idle"
    /\ payload_file # NoFile => payload_file.metadata.status = "processed"
    /\ SelectAlone

\* process_payroll_sync: the payload the extractor has just written
SyncApply ==
    /\ AllIdle
    /\ payload_file # NoFile
    /\ payload_file.metadata.status = "ready_for_sync"
    /\ ApplyBatch

NextSync ==
    \/ AddJane
    \/ AssignDepartment
    \/ WriterCommit
    \/ SyncSelect
    \/ \E x \in Extractors : WritePayload(x)
    \/ \E x \in Extractors : FlagCommit(x)
    \/ SyncApply
    \/ AnnotatePayload

SpecSync == Init /\ [][NextSync]_vars

----------------------------------------------------------------------------
(* Batch Applier alone: a payload file and a target store as earlier runs   *)
(* of the system can have left them                                        *)

JaneSmith ==
    [first_name |-> "Jane", last_name |-> "Smith", email |-> "b@co",
     department |-> "Marketing", position |-> "Marketing Manager",
     salary |-> "85000.0", status |-> "active"]

\* the rows the change events of the payloads speak of
JohnNewEmail == [SampleEmployee EXCEPT !.email = "b@co"]
JohnInactive == [SampleEmployee EXCEPT !.status = "inactive"]
JaneNewEmail == [JaneSmith EXCEPT !.email = "c@co"]
JaneRaise    == [JaneSmith EXCEPT !.salary = "92000.0"]

InsertEvent(e, row) ==
    [employee_id |-> e, change_type |-> "INSERT",
     old_values |-> EmptyMap, new_values |-> InsertSnapshot(e, row)]

UpdateEvent(e, old, new) ==
    [employee_id |-> e, change_type |-> "UPDATE",
     old_values |-> TrackedSnapshot(old), new_values |-> TrackedSnapshot(new)]

\* no trigger writes DELETE events; a payload file may carry them (ChangeType)
DeleteEvent(e, old) ==
    [employee_id |-> e, change_type |-> "DELETE",
     old_values |-> TrackedSnapshot(old), new_values |-> EmptyMap]

\* an INSERT whose snapshot lacks the email key
MalformedEvent(e, row) ==
    [employee_id |-> e, change_type |-> "INSERT", old_values |-> EmptyMap,
     new_values |-> [f \in InsertKeys \ {"email"} |-> InsertSnapshot(e, row)[f]]]

EventInputs ==
    {InsertEvent("EMP001", SampleEmployee),
     UpdateEvent("EMP001", SampleEmployee, JohnNewEmail),
     UpdateEvent("EMP001", SampleEmployee, JohnInactive),
     InsertEvent("EMP002", JaneSmith),
     UpdateEvent("EMP002", JaneSmith, JaneNewEmail),
     UpdateEvent("EMP002", JaneSmith, JaneRaise),
     DeleteEvent("EMP001", SampleEmployee),
     MalformedEvent("EMP002", JaneSmith)}

\* the change-event snapshots of a payload: log ids ascending, timestamps
\* either one second apart or all of one second
PayloadChanges(events, spaced) ==
    [i \in DOMAIN events |->
        [log_id                |-> i,
         employee_id           |-> events[i].employee_id,
         change_type           |-> events[i].change_type,
         old_values            |-> events[i].old_values,
         new_values            |-> events[i].new_values,
         change_timestamp      |-> IF spaced THEN i ELSE 0,
         current_employee_data |-> [f \in TrackedFields |-> NULL]]]

PayloadInputs ==
    {BuildPayload(PayloadChanges(events, spaced), 0) :
        events \in UNION {[1..n -> EventInputs] : n \in 1..MaxChanges},
        spaced \in BOOLEAN}

\* EMP002 as an earlier sync of its INSERT event has left it
JaneSynced ==
    InsertOrReplace(init_payroll_database, InsertSnapshot("EMP002", JaneSmith), 0)

TargetInputs == {init_payroll_database, JaneSynced}

InitApply ==
    /\ InitHR
    /\ ext = [x \in Extractors |-> ExtIdle]
    /\ payload_file \in PayloadInputs \cup {NoFile}
    /\ runs = 0
    /\ written = << >>
    /\ flag_runs = {}
    /\ last_run = NoRun
    /\ failed_runs = {}
    /\ detected = NoDetect
    /\ payroll_employees \in TargetInputs
    /\ sync_log = << >>
    /\ applier = ApplierIdle
    /\ last_apply = NoApply

NextApply ==
    \/ ApplyBatch
    \/ AnnotatePayload
    \/ Tick

SpecApply == InitApply /\ [][NextApply]_vars

----------------------------------------------------------------------------
(* Claims: Change Recorder *)

\* C9: the number of change events created equals the number of committed
\* writes that changed at least one tracked attribute, a change to or from
\* NULL included
C9_EventsMatchChangingWrites ==
    Len(change_log) - Len(init_hr_database.change_log) = changing_writes

\* C10: a committed insert or attribute-changing update has committed exactly
\* one change event with it, and a failed or rolled-back write has left none
C10_CaptureAtomicWithWrite ==
    /\ last_write.outcome = "committed" /\ last_write.changed
          => last_write.events = 1
    /\ last_write.outcome = "committed" /\ ~last_write.changed
          => last_write.events = 0
    /\ last_write.outcome \in {"failed", "rolled_back"}
          => last_write.events = 0

----------------------------------------------------------------------------
(* Claims: Batch Extractor *)

\* the written payloads that hold the event with this log id
Holders(id) == {k \in DOMAIN written : id \in written[k].log_ids}

\* the runs that turned the event's processed flag from FALSE to TRUE
Flaggers(id) == {r \in 1..runs : <<id, r>> \in flag_runs}

\* the runs that have written their payload and not yet flagged its rows
Flagging == {ext[x].run : x \in {y \in Extractors : ext[y].pc = "written"}}

\* C1: with one create_sync_payload at a time and no store failure, every
\* change event is in the changes of at most one written payload, a processed
\* event is in exactly one, its flag was turned on once and by the run that
\* wrote that payload, and an unprocessed event is in no payload except the
\* one whose run is about to flag it
C1_ExactlyOnceHandOff ==
    \A i \in DOMAIN change_log :
        LET id == change_log[i].id
        IN  /\ Cardinality(Holders(id)) <= 1
            /\ Cardinality(Flaggers(id)) <= 1
            /\ change_log[i].processed =>
                  /\ Cardinality(Holders(id)) = 1
                  /\ Flaggers(id) = {written[k].run : k \in Holders(id)}
            /\ ~change_log[i].processed =>
                  /\ Flaggers(id) = {}
                  /\ \A k \in Holders(id) : written[k].run \in Flagging

C1_Witness ==
    /\ Len(written) = 2
    /\ Len(change_log) = 3
    /\ \A i \in DOMAIN change_log : change_log[i].processed
    /\ written[1].log_ids # {} /\ written[2].log_ids # {}

\* C2: no change event is in the payloads of two different runs, also when
\* create_sync_payload invocations overlap
C2_NoEventInTwoPayloads ==
    \A k1, k2 \in DOMAIN written :
        written[k1].run # written[k2].run
            => written[k1].log_ids \cap written[k2].log_ids = {}

\* C6: a create_sync_payload that follows a successful one, with no committed
\* mutation since the first one began, returns success with
\* changes_processed = 0 and leaves the payload file as it found it
C6_SecondRunFindsNothing ==
    (/\ last_run.prev_status = "success"
     /\ last_run.prev_writes_at_start = last_run.writes_at_end)
        => /\ last_run.status = "success"
           /\ last_run.changes_processed = 0
           /\ ~last_run.wrote

C6_Witness ==
    /\ last_run.prev_status = "success"
    /\ last_run.prev_writes_at_start = last_run.writes_at_end
    /\ last_run.prev_changes_processed > 0
    /\ last_run.changes_processed = 0
    /\ payload_file # NoFile

----------------------------------------------------------------------------
(* Claims: Batch Applier *)

Applied == last_apply.status \in {"committed", "completed"}

\* a target table without its last_sync_timestamp column
WithoutSyncTime(tbl) ==
    [k \in DOMAIN tbl |->
        [f \in DOMAIN tbl[k] \ {"last_sync_timestamp"} |-> tbl[k][f]]]

\* the target row carries the attributes of the snapshot
Mirrors(row, new_data) ==
    /\ row.full_name = Str(new_data.first_name) \o " " \o Str(new_data.last_name)
    /\ row.email = new_data.email
    /\ row.department = new_data.department
    /\ row.position = new_data.position
    /\ row.base_salary = new_data.salary
    /\ row.tax_status = new_data.status

Upserting(change) == change.change_type \in {"INSERT", "UPDATE"}

\* C3: the target table after the second application of a payload equals the
\* table after its first application, last_sync_timestamp aside
C3_ApplyTwiceEqualsOnce ==
    (Applied /\ last_apply.nth = 2)
        => WithoutSyncTime(payroll_employees) = WithoutSyncTime(last_apply.table_before)

\* C4: when a payload holds two INSERT/UPDATE events of one employee_id with
\* timestamps t1 < t2 and different values, the later being the employee's
\* last event of the payload, then after the payload is applied the target
\* row of that employee exists and carries the later values
C4_LaterEventWins ==
    Applied =>
        \A i, j \in DOMAIN last_apply.changes :
            LET c1 == last_apply.changes[i]
                c2 == last_apply.changes[j]
            IN  (/\ c1.employee_id = c2.employee_id
                 /\ c1.change_timestamp < c2.change_timestamp
                 /\ Upserting(c1) /\ Upserting(c2)
                 /\ c1.new_values # c2.new_values
                 /\ \A k \in DOMAIN last_apply.changes :
                       k > j => last_apply.changes[k].employee_id # c2.employee_id)
                => /\ c2.employee_id \in DOMAIN payroll_employees
                   /\ Mirrors(payroll_employees[c2.employee_id], c2.new_values)

\* C5: right after the loop has processed an INSERT or an UPDATE event, the
\* target table holds a row for its employee_id that carries its new_values
C5_InsertAndUpdateUpsert ==
    Applied =>
        \A k \in DOMAIN last_apply.changes :
            LET c == last_apply.changes[k]
            IN  Upserting(c)
                => /\ c.employee_id \in DOMAIN last_apply.trail[k]
                   /\ Mirrors(last_apply.trail[k][c.employee_id], c.new_values)

\* the table with every change applied that can be applied, failing ones skipped
RECURSIVE SkippingFailures(_, _, _)
SkippingFailures(tbl, changes, i) ==
    IF i > Len(changes) THEN tbl
    ELSE SkippingFailures(ApplyChange(tbl, changes[i], 0).tbl, changes, i + 1)

\* C7: when a change of a payload of several changes fails, the call still
\* succeeds, every other change is applied and committed, and each change
\* has its audit row
C7_PartialFailureTolerated ==
    (last_apply.failed_at # 0 /\ Len(last_apply.changes) > 1)
        => /\ Applied
           /\ WithoutSyncTime(payroll_employees) =
                 WithoutSyncTime(SkippingFailures(last_apply.table_before,
                                                  last_apply.changes, 1))
           /\ Len(sync_log) = last_apply.audit_before + Len(last_apply.changes)

\* C8: a call on a payload whose status is already processed returns
\* processed_count = 0, appends no audit row and changes no target row
C8_ProcessedPayloadIsNoOp ==
    (Applied /\ last_apply.status_before = "processed")
        => /\ last_apply.processed_count = 0
           /\ Len(sync_log) = last_apply.audit_before
           /\ payroll_employees = last_apply.table_before

----------------------------------------------------------------------------
(* Claims: the whole system *)

\* C11: no step of any operation (add_employee, update_employee,
\* detect_changes, create_sync_payload, process_sync_payload) deletes a
\* change-log row, changes its id, employee_id, change_type, old_values,
\* new_values or change_timestamp, or turns its processed flag from TRUE
\* back to FALSE
C11_ChangeEventsImmutable ==
    [][\A i \in DOMAIN change_log :
          /\ i \in DOMAIN change_log'
          /\ change_log'[i].id = change_log[i].id
          /\ change_log'[i].employee_id = change_log[i].employee_id
          /\ change_log'[i].change_type = change_log[i].change_type
          /\ change_log'[i].old_values = change_log[i].old_values
          /\ change_log'[i].new_values = change_log[i].new_values
          /\ change_log'[i].change_timestamp = change_log[i].change_timestamp
          /\ (change_log[i].processed => change_log'[i].processed)]_vars

C11_Witness ==
    /\ Len(change_log) >= 2
    /\ \A i \in DOMAIN change_log : change_log[i].processed
    /\ Cardinality({fr[2] : fr \in flag_runs}) = 2
    /\ detected.status = "success"
    /\ last_apply.status = "completed"

\* C12: every change event with processed = TRUE is held by a payload that
\* was written to the file in full, and was flagged by a run that wrote such
\* a payload; no run whose payload write failed has flagged any event
C12_FlaggedOnlyAfterPayloadWritten ==
    \A i \in DOMAIN change_log :
        LET id == change_log[i].id
        IN  /\ change_log[i].processed => Holders(id) # {}
            /\ \A r \in Flaggers(id) :
                  /\ <<r, "write">> \notin failed_runs
                  /\ \E k \in Holders(id) : written[k].run = r

C12_Witness ==
    /\ \E fr \in failed_runs : fr[2] = "write"
    /\ payload_file # Truncated
    /\ \A i \in DOMAIN change_log : change_log[i].processed

\* C13: a create_sync_payload whose flag update or commit failed after its
\* payload was written has returned an error, and no change event of its
\* payload is in the payload of another run
C13_FlagFailureNoDoubleExtraction ==
    /\ <<last_run.run, "flag">> \in failed_runs => last_run.status = "error"
    /\ \A k1, k2 \in DOMAIN written :
          (/\ <<written[k1].run, "flag">> \in failed_runs
           /\ written[k2].run # written[k1].run)
              => written[k1].log_ids \cap written[k2].log_ids = {}

\* C14: an event is flagged processed by a run that returned success and by
\* nothing else, so an event no such run extracted stays unprocessed; and with
\* create_sync_payload invoked again and again, finitely many of the
\* invocations failing, every recorded change event is in the end flagged
\* processed and held by a written payload
C14_RetryLiveness ==
    /\ [](\A i \in DOMAIN change_log :
             change_log[i].processed <=> Flaggers(change_log[i].id) # {})
    /\ \A id \in 1..(MaxMutation + 1) :
          (Len(change_log) >= id)
              ~> (/\ Len(change_log) >= id
                  /\ change_log[id].processed
                  /\ Holders(id) # {})

C14_Witness ==
    /\ \E fr \in failed_runs : fr[2] = "flag"
    /\ Len(change_log) = 3
    /\ \A i \in DOMAIN change_log : change_log[i].processed /\ Holders(i) # {}

\* C15: when a create_sync_payload that found rows returns success (tool
\* calls running one at a time), the payload file holds one payload whose
\* changes are the rows that run selected, all of them unprocessed until
\* then, with total_changes their number, status ready_for_sync and no
\* processed_timestamp / processed_by
C15_PayloadSlotHoldsLatestBatch ==
    [][\A x \in Extractors :
          (/\ ext[x].pc = "written"
           /\ ext'[x].pc = "idle"
           /\ last_run'.status = "success")
              => /\ payload_file' # NoFile
                 /\ DOMAIN payload_file' =
                       {"source_system", "target_system", "sync_timestamp",
                        "total_changes", "changes", "metadata"}
                 /\ payload_file'.changes = ext[x].changes
                 /\ payload_file'.total_changes = last_run'.changes_processed
                 /\ payload_file'.total_changes = Len(ext[x].changes)
                 /\ \A i \in DOMAIN ext[x].changes :
                       ~change_log[ext[x].changes[i].log_id].processed
                 /\ payload_file'.metadata.status = "ready_for_sync"
                 /\ DOMAIN payload_file'.metadata =
                       {"generated_by", "sync_id", "status"}]_vars

C15_Witness ==
    /\ last_run.status = "success"
    /\ last_run.changes_processed > 0
    /\ last_run.run = 2
    /\ AllIdle
    /\ applier.pc = "idle"
    /\ last_apply.status = "completed"
    /\ payload_file.metadata.status = "ready_for_sync"

\* the log ids of the change events that a committed process_sync_payload
\* has applied (one audit row for each) since the audit log held n rows
AppliedSince(n) ==
    {sync_log[i].source_data.log_id : i \in {j \in DOMAIN sync_log : j > n}}

\* the run that wrote the k-th payload has flagged every event of it
FlaggedBy(k) ==
    \A id \in written[k].log_ids : <<id, written[k].run>> \in flag_runs

\* C16: when a payload is written, its run flags its events, and the next
\* payload is written with no process_sync_payload committed in between, the
\* events of the first payload are processed, no process_sync_payload since
\* that payload was written has applied them, and no later payload holds them
C16_OverwrittenPayloadLost ==
    \A k \in DOMAIN written :
        (/\ k + 1 \in DOMAIN written
         /\ FlaggedBy(k)
         /\ written[k + 1].audit_at_write = written[k].audit_at_write)
            => \A id \in written[k].log_ids :
                  /\ change_log[id].processed
                  /\ id \notin AppliedSince(written[k].audit_at_write)
                  /\ \A j \in DOMAIN written : j > k => id \notin written[j].log_ids

C16_Witness ==
    /\ Len(written) = 2
    /\ FlaggedBy(1) /\ FlaggedBy(2)
    /\ written[2].audit_at_write = written[1].audit_at_write
    /\ last_apply.status = "completed"
    /\ AppliedSince(0) = written[2].log_ids

----------------------------------------------------------------------------
(* Claims: Batch Applier, continued *)

\* the target table as the k-th change of the applied payload found it
TableBefore(k) ==
    IF k = 1 THEN last_apply.table_before ELSE last_apply.trail[k - 1]

\* C17: a DELETE change removes no row of the target table; the row of its
\* employee_id gets tax_status inactive and a last_sync_timestamp, its other
\* columns and all other rows stay as they were
C17_DeleteIsSoft ==
    Applied =>
        \A k \in DOMAIN last_apply.changes :
            LET c      == last_apply.changes[k]
                before == TableBefore(k)
                after  == last_apply.trail[k]
            IN  c.change_type = "DELETE"
                => /\ DOMAIN after = DOMAIN before
                   /\ \A e \in DOMAIN before \ {c.employee_id} : after[e] = before[e]
                   /\ c.employee_id \in DOMAIN before
                         => /\ after[c.employee_id].tax_status = "inactive"
                            /\ after[c.employee_id].last_sync_timestamp \in 0..MaxTime
                            /\ \A f \in DOMAIN before[c.employee_id] \
                                      {"tax_status", "last_sync_timestamp"} :
                                  after[c.employee_id][f] = before[c.employee_id][f]

C17_Witness ==
    /\ Applied
    /\ \E k \in DOMAIN last_apply.changes :
          /\ last_apply.changes[k].change_type = "DELETE"
          /\ last_apply.changes[k].employee_id \in DOMAIN TableBefore(k)
          /\ TableBefore(k)[last_apply.changes[k].employee_id].tax_status = "active"
          /\ Cardinality(DOMAIN TableBefore(k)) = 2
          /\ last_apply.changes[k].employee_id \in DOMAIN payroll_employees

\* C18: a process_sync_payload that attempted a payload of n changes has
\* appended n audit rows, the i-th about the i-th change and with its
\* outcome (failed and an error_message for a change that raised, completed
\* otherwise); and no step modifies or removes a row of the audit log
C18_AuditRowPerChange ==
    /\ [](last_apply.status \in {"committed", "completed", "error"} /\
              last_apply.status_before # "unreadable"
              => /\ Len(sync_log) = last_apply.audit_before + Len(last_apply.changes)
                 /\ \A i \in DOMAIN last_apply.changes :
                       LET row == sync_log[last_apply.audit_before + i]
                       IN  /\ row.source_data = last_apply.changes[i]
                           /\ IF i = last_apply.failed_at
                              THEN row.sync_status = "failed" /\ row.error_message # NULL
                              ELSE row.sync_status = "completed")
    /\ [][\A i \in DOMAIN sync_log :
             i \in DOMAIN sync_log' /\ sync_log'[i] = sync_log[i]]_vars

\* C19: a process_sync_payload called while there is no payload file reports
\* "No sync payload found" and leaves the target table, the audit log and
\* the payload file as they were
C19_NotFoundNoSideEffect ==
    [][(/\ applier.pc = "idle"
        /\ payload_file = NoFile
        /\ last_apply' # last_apply)
           => /\ last_apply'.status = "not_found"
              /\ last_apply'.processed_count = 0
              /\ payroll_employees' = payroll_employees
              /\ sync_log' = sync_log
              /\ payload_file' = NoFile]_vars

C19_Witness ==
    /\ last_apply.status = "not_found"
    /\ payload_file = NoFile
    /\ payroll_employees = init_payroll_database
    /\ sync_log = << >>
    /\ \E i \in DOMAIN change_log : ~change_log[i].processed

----------------------------------------------------------------------------
(* Claims: Batch Extractor, continued *)

\* C20: a create_sync_payload that starts when every change-log row is
\* processed returns at once, with success and changes_processed = 0, and
\* leaves the payload file and the change log as they were
C20_EmptyRunWritesNothing ==
    [][\A x \in Extractors :
          (/\ \A i \in DOMAIN change_log : change_log[i].processed
           /\ Select(x))
              => /\ ext'[x].pc = "idle"
                 /\ last_run'.status = "success"
                 /\ last_run'.changes_processed = 0
                 /\ payload_file' = payload_file
                 /\ change_log' = change_log]_vars

C20_Witness ==
    /\ last_run.status = "success"
    /\ last_run.changes_processed = 0
    /\ last_run.prev_changes_processed > 0
    /\ \A i \in DOMAIN change_log : change_log[i].processed
    /\ payload_file # NoFile
    /\ payload_file.metadata.status = "ready_for_sync"
    /\ sync_log = << >>

----------------------------------------------------------------------------
(* Claims: counts, results, identifiers, order, snapshots *)

\* the ids of the rows of the change log that are not flagged
UnprocessedIds(log) == {log[i].id : i \in {j \in DOMAIN log : ~log[j].processed}}

\* C21: a create_sync_payload that succeeds has selected exactly the change
\* events that were unprocessed at its SELECT, however many; it returns
\* changes_processed equal to their number, to the total_changes of the
\* payload it wrote and to the length of that payload's changes list, and
\* every one of them is flagged processed by this call
C21_CountsAgreeAndAllFlagged ==
    [][\A x \in Extractors :
          /\ (ext[x].pc = "idle" /\ ext'[x].pc = "selected") =>
                /\ {ext'[x].changes[i].log_id : i \in DOMAIN ext'[x].changes}
                      = UnprocessedIds(change_log)
                /\ Len(ext'[x].changes) = Cardinality(UnprocessedIds(change_log))
          /\ (ext[x].pc = "written" /\ ext'[x].pc = "idle"
                /\ last_run'.status = "success") =>
                /\ last_run'.changes_processed = Len(ext[x].changes)
                /\ last_run'.changes_processed = payload_file.total_changes
                /\ last_run'.changes_processed = Len(payload_file.changes)
                /\ payload_file.changes = ext[x].changes
                /\ \A i \in DOMAIN ext[x].changes :
                      /\ <<ext[x].changes[i].log_id, ext[x].run>> \in flag_runs'
                      /\ \E j \in DOMAIN change_log' :
                            /\ change_log'[j].id = ext[x].changes[i].log_id
                            /\ change_log'[j].processed]_vars

\* a run has returned success for the two UPDATE events recorded since the
\* run before it, and both are flagged
C21_Witness ==
    /\ AllIdle
    /\ last_run.status = "success"
    /\ last_run.run = 2
    /\ last_run.changes_processed = 2
    /\ payload_file # NoFile
    /\ payload_file.total_changes = 2
    /\ \A i \in DOMAIN payload_file.changes :
          payload_file.changes[i].change_type = "UPDATE"
    /\ UnprocessedIds(change_log) = {}

\* C22: every operation entry point (add_employee, update_employee,
\* detect_changes, create_sync_payload, process_sync_payload) ends in a
\* structured success or error result whatever the store does; no store
\* exception reaches the caller
C22_NoRawStoreException ==
    /\ WriterEnds = "returned"
    /\ detected.status \in {"none", "success", "error"}
    /\ last_run.status \in {"none", "success", "error"}
    /\ last_apply.status \in {"none", "not_found", "committed", "completed", "error"}

\* C23: the payloads written by two different successful create_sync_payload
\* runs carry different sync_id values, also when both runs complete within
\* the same clock second
C23_SyncIdsUnique ==
    \A k1, k2 \in DOMAIN written :
        (k1 # k2 /\ FlaggedBy(k1) /\ FlaggedBy(k2)) =>
            written[k1].sync_id # written[k2].sync_id

C25_SnapshotsFullAndFaithful ==
    [][\A n \in (DOMAIN change_log') \ (DOMAIN change_log) :
          LET ev == change_log'[n]
              e  == ev.employee_id
          IN  /\ e \in DOMAIN employees'
              /\ IF ev.change_type = "INSERT"
                 THEN /\ e \notin DOMAIN employees
                      /\ ev.old_values = EmptyMap
                      /\ DOMAIN ev.new_values = TrackedFields \cup {"employee_id"}
                      /\ ev.new_values.employee_id = e
                      /\ \A f \in TrackedFields : ev.new_values[f] = employees'[e][f]
                 ELSE /\ ev.change_type = "UPDATE"
                      /\ e \in DOMAIN employees
                      /\ DOMAIN ev.old_values = TrackedFields
                      /\ DOMAIN ev.new_values = TrackedFields
                      /\ \A f \in TrackedFields :
                            /\ ev.old_values[f] = employees[e][f]
                            /\ ev.new_values[f] = employees'[e][f]]_vars

\* an update that changed one tracked attribute has committed its event, whose
\* snapshots hold all seven, and an INSERT event of an added employee precedes it
C25_Witness ==
    /\ last_write.outcome = "committed"
    /\ last_write.events = 1
    /\ Len(change_log) > 2
    /\ LET ev == change_log[Len(change_log)]
       IN  /\ ev.change_type = "UPDATE"
           /\ DOMAIN ev.new_values = TrackedFields
           /\ Cardinality({f \in TrackedFields : ev.old_values[f] # ev.new_values[f]}) = 1
    /\ \E n \in DOMAIN change_log :
          /\ n > 1
          /\ change_log[n].change_type = "INSERT"
          /\ change_log[n].new_values.employee_id = "EMP002"

----------------------------------------------------------------------------
(* Claims: payload lifecycle, target store, convergence *)

\* the payload file holds a payload (it is there and it is readable)
IsPayload(f) == f # NoFile /\ f # Truncated

\* C26: the status of a payload is ready_for_sync when create_sync_payload
\* writes it and from then on only ever moves to processed, never back; the
\* step that moves it is the annotation of process_sync_payload, taken after
\* every change of the payload was applied and committed; the annotation adds
\* processed_timestamp and processed_by and leaves the changes list,
\* total_changes and sync_id of the payload as they were
C26_PayloadStatusLifecycle ==
    [][/\ Len(written') > Len(written) =>
             /\ IsPayload(payload_file')
             /\ payload_file'.metadata.status = "ready_for_sync"
             /\ DOMAIN payload_file'.metadata = {"generated_by", "sync_id", "status"}
       /\ (Len(written') = Len(written) /\ IsPayload(payload_file)
             /\ IsPayload(payload_file')) =>
             /\ payload_file'.changes = payload_file.changes
             /\ payload_file'.total_changes = payload_file.total_changes
             /\ payload_file'.metadata.sync_id = payload_file.metadata.sync_id
             /\ payload_file'.metadata.status \in {"ready_for_sync", "processed"}
             /\ payload_file.metadata.status = "processed" =>
                   payload_file'.metadata.status = "processed"
             /\ payload_file'.metadata.status # payload_file.metadata.status =>
                   /\ applier.pc = "committed" /\ applier'.pc = "idle"
                   /\ last_apply.status = "committed"
                   /\ last_apply.processed_count = Len(payload_file.changes)
                   /\ Len(sync_log) = last_apply.audit_before + Len(payload_file.changes)
                   /\ DOMAIN payload_file'.metadata
                         = DOMAIN payload_file.metadata
                              \cup {"processed_timestamp", "processed_by"}
                   /\ payload_file'.metadata.processed_by = "Payroll System Agent"]_vars

\* the payload of a create_sync_payload run has been applied and annotated:
\* its status is processed and its changes are those the run wrote
C26_Witness ==
    /\ written # << >>
    /\ IsPayload(payload_file)
    /\ payload_file.metadata.status = "processed"
    /\ "processed_timestamp" \in DOMAIN payload_file.metadata
    /\ LogIds(payload_file.changes) = written[Len(written)].log_ids
    /\ payload_file.total_changes = 2
    /\ last_apply.status = "completed"

\* C27: no process_sync_payload run removes a row of payroll_employees: the
\* set of employee_ids in the target store never shrinks, also when an INSERT
\* event carries the email that the row of another employee holds
C27_TargetRecordsNeverRemoved ==
    [][DOMAIN payroll_employees \subseteq DOMAIN payroll_employees']_vars

\* no mutation is pending: no write and no tool call is under way, every
\* change event is flagged processed and the last payload has been applied
NothingPending ==
    /\ writer.pc = "idle"
    /\ AllIdle
    /\ applier.pc = "idle"
    /\ UnprocessedIds(change_log) = {}
    /\ IsPayload(payload_file)
    /\ payload_file.metadata.status = "processed"
    /\ last_apply.status = "completed"

\* C28: when every create_sync_payload that writes a payload is followed by a
\* successful process_sync_payload before the next one, then, once no mutation
\* is pending, every employee of the HR store has a row in payroll_employees
\* that mirrors its current tracked attributes
C28_Convergence ==
    NothingPending =>
        \A e \in DOMAIN employees :
            /\ e \in DOMAIN payroll_employees
            /\ Mirrors(payroll_employees[e], employees[e])

\* C29: a process_sync_payload run commits its target-store writes and its
\* audit rows together, once, after every change of the payload was applied;
\* when a change raises, the run leaves payroll_employees and sync_log as
\* they were and the payload file with its status ready_for_sync untouched
C29_ApplyAllOrNothing ==
    [][/\ (last_apply' # last_apply /\ last_apply'.status = "error") =>
             /\ payroll_employees' = payroll_employees
             /\ sync_log' = sync_log
             /\ payload_file' = payload_file
       /\ (payroll_employees' # payroll_employees \/ sync_log' # sync_log) =>
             /\ last_apply'.status = "committed"
             /\ last_apply'.processed_count = Len(payload_file.changes)
             /\ Len(sync_log') = Len(sync_log) + Len(payload_file.changes)]_vars

\* a run has failed at a later change of a payload whose earlier change had
\* already written to the target table inside the transaction; the table is
\* as before the run, no audit row was added, the payload is ready_for_sync
C29_Witness ==
    /\ last_apply.status = "error"
    /\ last_apply.failed_at > 1
    /\ last_apply.trail[1] # last_apply.table_before
    /\ payroll_employees = last_apply.table_before
    /\ Len(sync_log) = last_apply.audit_before
    /\ payload_file.metadata.status = "ready_for_sync"

----------------------------------------------------------------------------
(* Claims: writes that commit while create_sync_payload runs *)

\* the log ids of the changes an invocation has selected
SelectedIds(x) == {ext[x].changes[i].log_id : i \in DOMAIN ext[x].changes}

\* C30: the flag update of a create_sync_payload run changes the flag of the
\* rows it selected and of no other row, so an event committed after the
\* run's SELECT and before its flag commit stays unprocessed; every flag a run
\* sets is that of an event in the payload the run wrote; and the SELECT of
\* the next run takes every row that is still unprocessed
C30_LateEventLeftForNextRun ==
    [][\A x \in Extractors :
          /\ (ext[x].pc = "written" /\ ext'[x].pc = "idle") =>
                /\ \A j \in DOMAIN change_log :
                      change_log[j].id \notin SelectedIds(x) =>
                          change_log'[j] = change_log[j]
                /\ \A fr \in flag_runs' \ flag_runs :
                      /\ fr[2] = ext[x].run
                      /\ \E k \in DOMAIN written :
                            /\ written[k].run = fr[2]
                            /\ fr[1] \in written[k].log_ids
          /\ (ext[x].pc = "idle" /\ ext'[x].pc = "selected") =>
                \A j \in DOMAIN change_log :
                    ~change_log[j].processed =>
                        \E i \in DOMAIN ext'[x].changes :
                            ext'[x].changes[i].log_id = change_log[j].id]_vars

\* run 1 selected event 1 alone; the INSERT event of EMP002 was committed
\* before run 1 flagged, and was left unprocessed; run 2 has selected it
C30_Witness ==
    /\ last_run.run = 1
    /\ last_run.status = "success"
    /\ last_run.writes_at_start = 0
    /\ last_run.writes_at_end = 1
    /\ changing_writes = 1
    /\ written[1].log_ids = {1}
    /\ flag_runs = {<<1, 1>>}
    /\ ext[1].pc = "selected"
    /\ ext[1].run = 2
    /\ SelectedIds(1) = {2}

----------------------------------------------------------------------------
(* Claims: commit before annotation; detect_changes *)

\* every change of the payload has a committed audit row
Audited(payload) ==
    \A i \in DOMAIN payload.changes :
        \E j \in DOMAIN sync_log :
            /\ sync_log[j].source_data = payload.changes[i]
            /\ sync_log[j].sync_status = "completed"

Extractable(emps, log) ==
    {SelectChanges(emps, log, o) : o \in OrderedBy(log, SelectedRows(log))}

\* C32: a detect_changes call returns exactly the change events that are
\* unprocessed when it is called, with their number, and changes no processed
\* flag, no employee, no payload and nothing of the target store, so what a
\* following create_sync_payload selects is what it would have selected
\* without the call
C32_DetectChangesReadOnly ==
    [][detected' # detected =>
          /\ detected'.status = "success"
          /\ {detected'.changes[i].log_id : i \in DOMAIN detected'.changes}
                = UnprocessedIds(change_log)
          /\ detected'.changes_count = Cardinality(UnprocessedIds(change_log))
          /\ detected'.changes_count = Len(detected'.changes)
          /\ UNCHANGED <<employees, change_log, payload_file, payroll_employees,
                         sync_log, written, flag_runs>>
          /\ Extractable(employees', change_log') = Extractable(employees, change_log)]_vars

\* detect_changes has reported two unprocessed events, and the
\* create_sync_payload after it has extracted and flagged those two
C32_Witness ==
    /\ detected.status = "success"
    /\ detected.changes_count = 2
    /\ AllIdle
    /\ last_run.status = "success"
    /\ last_run.changes_processed = 2
    /\ written # << >>
    /\ written[Len(written)].log_ids
          = {detected.changes[i].log_id : i \in DOMAIN detected.changes}
    /\ UnprocessedIds(change_log) = {}

====
